---- MODULE Spec2Model ----
(***************************************************************************)
(* A model of django-notification (notification/models.py and the views    *)
(* that edit NoticeSetting rows): the NoticeType, NoticeSetting and        *)
(* Observation tables, the backend registry built at import time, and the  *)
(* dispatch pipeline (send, broadcast) with the observation API.           *)
(***************************************************************************)
EXTENDS Integers, Sequences, FiniteSets, TLC

\* ------------------------------------------------------------------ bounds
\* calls that write, per behaviour
MaxOps == 2
\* the User table: two accounts
Users == {1, 2}
\* concurrent callers (request threads or worker processes)
Procs == {"p1", "p2"}
\* AnonymousUser (is_anonymous() is True, never a row of the User table)
Anonymous == 0
Labels == {"a", "b"}
Displays == {"d1", "d2"}
Descriptions == {"e1"}
Defaults == {2, 3}
\* observable entities, each a (content type, object id) pair
Entities == {<<"post", 1>>, <<"post", 2>>, <<"photo", 1>>}

\* ---------------------------------------------------------------- helpers
RECURSIVE SeqsUpTo(_, _)
SeqsUpTo(S, n) ==
    IF n = 0 THEN {<<>>}
    ELSE LET shorter == SeqsUpTo(S, n - 1)
         IN  shorter \cup {Append(s, x) : s \in shorter, x \in S}

Range(s) == {s[i] : i \in DOMAIN s}

\* the sequences without repetition over S
Distinct(S) == {s \in SeqsUpTo(S, Cardinality(S)) : Cardinality(Range(s)) = Len(s)}

\* recipients of a send: a set or list of users, in the order it is iterated
RecipientLists == Distinct(Users)

\* the orders in which a set of users can be enumerated
Orderings(S) == {s \in RecipientLists : Range(s) = S}

\* ---------------------------------------------------------------- backends
\* notification.backends is not part of the sources at hand: the two
\* backends of the reference configuration, with the sensitivities the
\* specification gives for them.
WebsiteBackend == [medium_id |-> "f", label |-> "website", spam_sensitivity |-> 1]
EmailBackend == [medium_id |-> "e", label |-> "email", spam_sensitivity |-> 3]

\* a second backend of the feed's medium: the registry is keyed by (medium id,
\* label), so two backends can share a medium id
PopupBackend == [medium_id |-> "f", label |-> "popup", spam_sensitivity |-> 2]

VARIABLES
    NOTIFICATION_BACKENDS,  \* the registry, in the order .keys()/.values() enumerate it
    noticeTypes,            \* NoticeType table: row i has primary key i
    settings,               \* NoticeSetting table: row i has primary key i
    observations,           \* Observation table, oldest first
    content_types,          \* module-level set computed at import (line 384-385)
    entities,               \* observable objects not yet deleted
    language,               \* the active locale (get_language / activate)
    faulty,                 \* <<backend index, user, method>> calls that raise
    calls,                  \* deliver calls of the latest send, in order
    result,                 \* the latest call: its arguments and outcome
    ops,                    \* operations performed so far
    pc                      \* position of each concurrent caller

vars == <<NOTIFICATION_BACKENDS, noticeTypes, settings, observations,
          content_types, entities, language, faulty, calls, result, ops, pc>>

\* NOTICE_MEDIA: the registry's keys
NOTICE_MEDIA(backends) ==
    [i \in DOMAIN backends |-> <<backends[i].medium_id, backends[i].label>>]

\* NOTICE_MEDIA_DEFAULTS: a dict comprehension keyed by medium id, so a later
\* backend of the same medium overwrites an earlier one
NOTICE_MEDIA_DEFAULTS(backends) ==
    [m \in {backends[i].medium_id : i \in DOMAIN backends} |->
        LET is == {i \in DOMAIN backends : backends[i].medium_id = m}
            last == CHOOSE i \in is : \A j \in is : j <= i
        IN  backends[last].spam_sensitivity]

\* the module-level name `website`: index of the last enumerated backend
\* labelled 'website'; 0 when the loop never binds the name
website(backends) ==
    LET is == {i \in DOMAIN backends : backends[i].label = "website"}
    IN  IF is = {} THEN 0 ELSE CHOOSE i \in is : \A j \in is : j <= i

\* ------------------------------------------------------------- NoticeType
\* NoticeType.objects.get(label=label): the matching primary keys
NoticeTypeIds(nts, label) == {i \in DOMAIN nts : nts[i].label = label}

\* (mutant) a create_notice_type that saves a new row whenever a field differs
create_notice_type_insert(nts, label, display, description, default) ==
    LET row == [label |-> label, display |-> display,
                description |-> description, default |-> default]
    IN  IF \E i \in DOMAIN nts : nts[i] = row
        THEN [error |-> "none", saved |-> FALSE, nts |-> nts]
        ELSE [error |-> "none", saved |-> TRUE, nts |-> Append(nts, row)]

create_notice_type(nts, label, display, description, default) ==
    LET ids == NoticeTypeIds(nts, label)
    IN  IF ids = {}
        THEN [error |-> "none", saved |-> TRUE,
              nts |-> Append(nts, [label |-> label, display |-> display,
                                   description |-> description,
                                   default |-> default])]
        ELSE IF Cardinality(ids) > 1
        THEN [error |-> "MultipleObjectsReturned", saved |-> FALSE, nts |-> nts]
        ELSE LET i == CHOOSE j \in ids : TRUE
                 updated == \/ display # nts[i].display
                            \/ description # nts[i].description
                            \/ default # nts[i].default
             IN  [error |-> "none", saved |-> updated,
                  nts |-> IF updated
                          THEN [nts EXCEPT ![i].display = display,
                                           ![i].description = description,
                                           ![i].default = default]
                          ELSE nts]

\* ---------------------------------------------------------- NoticeSetting
SettingIds(tbl, user, nt, medium) ==
    {i \in DOMAIN tbl : /\ tbl[i].user = user
                        /\ tbl[i].notice_type = nt
                        /\ tbl[i].medium = medium}

\* (mutant) the insert on a table that lacks the uniqueness constraint
NoticeSettingCreateUnchecked(tbl, row) ==
    [error |-> "none", tbl |-> Append(tbl, row), pk |-> Len(tbl) + 1,
     created |-> TRUE]

\* NoticeSetting.objects.create under unique_together(user, notice_type, medium)
NoticeSettingCreate(tbl, row) ==
    IF SettingIds(tbl, row.user, row.notice_type, row.medium) # {}
    THEN [error |-> "IntegrityError", tbl |-> tbl, pk |-> 0, created |-> FALSE]
    ELSE [error |-> "none", tbl |-> Append(tbl, row), pk |-> Len(tbl) + 1,
          created |-> TRUE]

\* (mutant) the default with a strict comparison
DefaultSendStrict(backends, nts, nt, medium) ==
    NOTICE_MEDIA_DEFAULTS(backends)[medium] < nts[nt].default

\* the default computed on a miss (line 108)
DefaultSend(backends, nts, nt, medium) ==
    NOTICE_MEDIA_DEFAULTS(backends)[medium] <= nts[nt].default

\* (mutant) a lookup that brings a stored row back to the current default
get_notification_setting_refresh(tbl, backends, nts, user, nt, medium) ==
    LET ids == SettingIds(tbl, user, nt, medium)
        row == [user |-> user, notice_type |-> nt, medium |-> medium,
                send |-> DefaultSend(backends, nts, nt, medium)]
    IN  IF ids = {} THEN NoticeSettingCreate(tbl, row)
        ELSE LET i == CHOOSE j \in ids : TRUE
             IN  [error |-> "none", tbl |-> [tbl EXCEPT ![i] = row], pk |-> i,
                  created |-> FALSE]

get_notification_setting(tbl, backends, nts, user, nt, medium) ==
    LET ids == SettingIds(tbl, user, nt, medium)
    IN  IF Cardinality(ids) = 1
        THEN [error |-> "none", tbl |-> tbl, pk |-> CHOOSE i \in ids : TRUE,
              created |-> FALSE]
        ELSE IF Cardinality(ids) > 1
        THEN [error |-> "MultipleObjectsReturned", tbl |-> tbl, pk |-> 0,
              created |-> FALSE]
        ELSE NoticeSettingCreate(tbl, [user |-> user, notice_type |-> nt,
                                       medium |-> medium,
                                       send |-> DefaultSend(backends, nts, nt, medium)])

should_send(tbl, backends, nts, user, nt, medium) ==
    LET g == get_notification_setting(tbl, backends, nts, user, nt, medium)
    IN  [error |-> g.error, tbl |-> g.tbl,
         value |-> IF g.error = "none" THEN g.tbl[g.pk].send ELSE FALSE]

\* ------------------------------------------------------------------- send
\* get_notification_language: the host's per-user language table; a user
\* without a row raises LanguageStoreNotAvailable
get_notification_language(user) ==
    IF user = 1 THEN "fr" ELSE "NotAvailable"

\* django.core.signing.Signer: the signature of a value under SECRET_KEY
Mac(v) == (v * 7 + 3) % 11

\* signer.sign(user.pk)
sign(v) == [value |-> v, sig |-> Mac(v)]

\* signer.unsign(code): the value, or BadSignature
unsign(code) ==
    IF code.sig = Mac(code.value)
    THEN [error |-> "none", value |-> code.value]
    ELSE [error |-> "BadSignature", value |-> code.value]

\* a context dict, restricted to the entries that differ from one recipient
\* to the next: each key is absent ({}) or holds one value
EmptyContext == [recipient |-> {}, unsubscribe_link |-> {}, observed |-> {}]

\* dict.update
Update(d, e) == [k \in DOMAIN d |-> IF e[k] # {} THEN e[k] ELSE d[k]]

\* lines 203-216: the entries of `context` made for this recipient
RecipientContext(user) ==
    [EmptyContext EXCEPT !.recipient = {user}, !.unsubscribe_link = {sign(user)}]

\* BaseBackend.can_send: the preference gate of the backend's own medium
can_send(tbl, env, b, user, nt) ==
    IF <<b, user, "can_send">> \in env.faulty
    THEN [error |-> "BackendError", tbl |-> tbl, value |-> FALSE]
    ELSE should_send(tbl, env.backends, env.nts, user, nt,
                     env.backends[b].medium_id)

\* backend.deliver(user, sender, notice_type, extra_context)
deliver(st, env, b, user) ==
    [st EXCEPT !.calls = Append(@, [backend |-> b, user |-> user,
                                    extra_context |-> st.extra_context]),
               !.error = IF <<b, user, "deliver">> \in env.faulty
                         THEN "BackendError" ELSE "none"]

\* (mutant) the loop without its `backend != website` test
RECURSIVE DeliverToBackendsAgain(_, _, _, _, _)
DeliverToBackendsAgain(st, env, i, user, nt) ==
    IF st.error # "none" \/ i > Len(env.backends) THEN st
    ELSE LET c == can_send(st.settings, env, i, user, nt)
             s1 == [st EXCEPT !.settings = c.tbl, !.error = c.error]
             s2 == IF c.error = "none" /\ c.value
                   THEN deliver(s1, env, i, user)
                   ELSE s1
         IN  DeliverToBackendsAgain(s2, env, i + 1, user, nt)

\* lines 237-239: the loop over NOTIFICATION_BACKENDS.values()
RECURSIVE DeliverToBackends(_, _, _, _, _)
DeliverToBackends(st, env, i, user, nt) ==
    IF st.error # "none" \/ i > Len(env.backends) THEN st
    ELSE LET c == can_send(st.settings, env, i, user, nt)
             s1 == [st EXCEPT !.settings = c.tbl, !.error = c.error]
             s2 == IF c.error = "none" /\ c.value /\ i # website(env.backends)
                   THEN deliver(s1, env, i, user)
                   ELSE s1
         IN  DeliverToBackends(s2, env, i + 1, user, nt)

\* (mutant) a loop body that leaves the feed to the loop over all backends
SendToUserInRegistryOrder(st, env, user, nt) ==
    LET lg == get_notification_language(user)
        s0 == IF lg = "NotAvailable" THEN st ELSE [st EXCEPT !.language = lg]
        s3 == [s0 EXCEPT !.extra_context = Update(@, RecipientContext(user))]
    IN  DeliverToBackendsAgain(s3, env, 1, user, nt)

\* lines 197-239: the body of the loop over users
SendToUser(st, env, user, nt) ==
    LET lg == get_notification_language(user)
        s0 == IF lg = "NotAvailable" THEN st ELSE [st EXCEPT !.language = lg]
        w == website(env.backends)
    IN  IF w = 0 THEN [s0 EXCEPT !.error = "NameError"]
        ELSE LET c == can_send(s0.settings, env, w, user, nt)
                 s1 == [s0 EXCEPT !.settings = c.tbl, !.error = c.error]
                 s2 == IF c.error = "none" /\ c.value
                       THEN deliver(s1, env, w, user)
                       ELSE s1
                 s3 == IF s2.error = "none"
                       THEN [s2 EXCEPT !.extra_context =
                                           Update(@, RecipientContext(user))]
                       ELSE s2
             IN  DeliverToBackends(s3, env, 1, user, nt)

RECURSIVE SendToUsers(_, _, _, _)
SendToUsers(st, env, users, nt) ==
    IF users = <<>> \/ st.error # "none" THEN st
    ELSE SendToUsers(SendToUser(st, env, Head(users), nt), env, Tail(users), nt)

\* (mutant) a send that looks the notice type up inside the loop, after the
\* first recipient's locale is activated
send_lookup_in_loop(tbl, lang, env, users, label, extra_context) ==
    LET ids == NoticeTypeIds(env.nts, label)
        st0 == [settings |-> tbl, language |-> lang, calls |-> <<>>,
                error |-> "none", extra_context |-> extra_context]
        lg == IF users = <<>> THEN "NotAvailable"
              ELSE get_notification_language(Head(users))
    IN  IF Cardinality(ids) # 1
        THEN [st0 EXCEPT !.error = IF ids = {} THEN "DoesNotExist"
                                   ELSE "MultipleObjectsReturned",
                         !.language = IF lg = "NotAvailable" THEN lang ELSE lg]
        ELSE LET st == SendToUsers(st0, env, users, CHOOSE i \in ids : TRUE)
             IN  IF st.error = "none" THEN [st EXCEPT !.language = lang]
                 ELSE st

\* send(users, label, extra_context, sender): the tables, the locale, the
\* deliver calls and the extra_context dict it leaves, with the exception
\* that ended it, if any
send(tbl, lang, env, users, label, extra_context) ==
    LET ids == NoticeTypeIds(env.nts, label)
        st0 == [settings |-> tbl, language |-> lang, calls |-> <<>>,
                error |-> "none", extra_context |-> extra_context]
    IN  IF ids = {} THEN [st0 EXCEPT !.error = "DoesNotExist"]
        ELSE IF Cardinality(ids) > 1
        THEN [st0 EXCEPT !.error = "MultipleObjectsReturned"]
        ELSE LET st == SendToUsers(st0, env, users, CHOOSE i \in ids : TRUE)
             IN  IF st.error = "none" THEN [st EXCEPT !.language = lang]
                 ELSE st

\* (mutant) a broadcast that ignores exclude
broadcast_send_to_all(exclude) == Users

\* broadcast: set(User.objects.all()) - set(exclude)
broadcast_send_to(exclude) == Users \ exclude

\* notice_settings view, lines 72-90: cell k of the table, notice types in
\* table order and, for each, NOTICE_MEDIA in registry order
RECURSIVE notice_settings(_, _, _, _, _, _)
notice_settings(tbl, env, user, post, on, k) ==
    LET nb == Len(env.backends)
        nt == (k \div nb) + 1
        b == (k % nb) + 1
    IN  IF nb = 0 \/ nt > Len(env.nts) THEN [error |-> "none", tbl |-> tbl]
        ELSE LET medium_id == NOTICE_MEDIA(env.backends)[b][1]
                 g == get_notification_setting(tbl, env.backends, env.nts,
                                               user, nt, medium_id)
                 want == <<env.nts[nt].label, medium_id>> \in on
                 t2 == IF g.error = "none" /\ post /\ g.tbl[g.pk].send # want
                       THEN [g.tbl EXCEPT ![g.pk].send = want]
                       ELSE g.tbl
             IN  IF g.error # "none" THEN [error |-> g.error, tbl |-> g.tbl]
                 ELSE notice_settings(t2, env, user, post, on, k + 1)

\* ------------------------------------------------------------ unsubscribe
\* ids a signed value can name: the users, and an account deleted after its
\* link was mailed
UserIds == Users \cup {3}

\* the codes a request can carry: the links minted by send, and links whose
\* value or signature was altered
Codes ==
    {sign(v) : v \in UserIds}
    \cup {c \in [value : Users, sig : {Mac(w) : w \in UserIds}] :
              c.sig # Mac(c.value)}

\* the medium of the url, matched by (\w+): a backend label or any other word
MediumWords == {"email", "website", "sms"}

\* (mutant) an unsubscribe that trusts the value of the code
unsubscribe_unverified(tbl, backends, medium, code) ==
    LET media == SelectSeq(NOTICE_MEDIA(backends), LAMBDA x : x[2] = medium)
    IN  IF code.value \notin Users \/ media = <<>>
        THEN [error |-> "Http404", tbl |-> tbl]
        ELSE [error |-> IF medium = "email" THEN "none" ELSE "UnboundLocalError",
              tbl |-> [i \in DOMAIN tbl |->
                          IF tbl[i].user = code.value /\ tbl[i].medium = media[1][1]
                          THEN [tbl[i] EXCEPT !.send = FALSE] ELSE tbl[i]]]

\* the unsubscribe view: ctx is bound only when medium is 'email', so the
\* render of any other medium raises UnboundLocalError after the rows are saved
unsubscribe(tbl, backends, medium, code) ==
    LET u == unsign(code)
        media == SelectSeq(NOTICE_MEDIA(backends), LAMBDA x : x[2] = medium)
    IN  IF u.error # "none" \/ u.value \notin Users \/ media = <<>>
        THEN [error |-> "Http404", tbl |-> tbl]
        ELSE LET medium_code == media[1][1]
             IN  [error |-> IF medium = "email" THEN "none"
                            ELSE "UnboundLocalError",
                  tbl |-> [i \in DOMAIN tbl |->
                              IF tbl[i].user = u.value /\ tbl[i].medium = medium_code
                              THEN [tbl[i] EXCEPT !.send = FALSE] ELSE tbl[i]]]

\* ------------------------------------------------------------ Observation
\* a labels argument is one label or a list of labels (isinstance(labels, list))
LabelArgs ==
    {[kind |-> "one", label |-> l] : l \in Labels}
    \cup {[kind |-> "list", labels |-> ls] : ls \in Distinct(Labels)}

AsList(arg) == IF arg.kind = "one" THEN <<arg.label>> ELSE arg.labels

\* the rows ObservedItemManager.get_for's self.get(...) matches
ObservationIds(obs, nts, observed, observer, label) ==
    {i \in DOMAIN obs : /\ obs[i].content_type = observed[1]
                        /\ obs[i].object_id = observed[2]
                        /\ obs[i].user = observer
                        /\ nts[obs[i].notice_type].label = label}

\* ObservedItemManager.observers: rows of every observer, newest first
observers(obs, nts, observed, label) ==
    LET match(i) == /\ obs[i].content_type = observed[1]
                    /\ obs[i].object_id = observed[2]
                    /\ nts[obs[i].notice_type].label = label
        n == Len(obs)
        rev == [i \in 1..n |-> n + 1 - i]
    IN  SelectSeq(rev, match)

\* (mutant) MultipleObjectsReturned taken for "not observing"
RECURSIVE is_observing_labels_unique(_, _, _, _, _)
is_observing_labels_unique(obs, nts, observed, observer, labels) ==
    IF labels = <<>> THEN TRUE
    ELSE IF Cardinality(ObservationIds(obs, nts, observed, observer,
                                       Head(labels))) # 1
    THEN FALSE
    ELSE is_observing_labels_unique(obs, nts, observed, observer, Tail(labels))

RECURSIVE is_observing_labels(_, _, _, _, _)
is_observing_labels(obs, nts, observed, observer, labels) ==
    IF labels = <<>> THEN TRUE
    ELSE IF ObservationIds(obs, nts, observed, observer, Head(labels)) = {}
    THEN FALSE
    ELSE is_observing_labels(obs, nts, observed, observer, Tail(labels))

is_observing(obs, nts, observed, observer, arg) ==
    IF observer = Anonymous THEN FALSE
    ELSE is_observing_labels(obs, nts, observed, observer, AsList(arg))

\* Observation(user=..., observed_object=..., notice_type=...).save()
ObservationSave(obs, row) == Append(obs, row)

\* (mutant) observe without its is_observing test
RECURSIVE observe_labels_always(_, _, _, _, _)
observe_labels_always(obs, nts, observed, observer, labels) ==
    IF labels = <<>> THEN [error |-> "none", obs |-> obs]
    ELSE LET ids == NoticeTypeIds(nts, Head(labels))
         IN  IF ids = {} THEN [error |-> "DoesNotExist", obs |-> obs]
             ELSE IF Cardinality(ids) > 1
             THEN [error |-> "MultipleObjectsReturned", obs |-> obs]
             ELSE observe_labels_always(
                      Append(obs, [user |-> observer,
                                   notice_type |-> CHOOSE i \in ids : TRUE,
                                   content_type |-> observed[1],
                                   object_id |-> observed[2],
                                   send |-> TRUE]),
                      nts, observed, observer, Tail(labels))

RECURSIVE observe_labels(_, _, _, _, _)
observe_labels(obs, nts, observed, observer, labels) ==
    IF labels = <<>> THEN [error |-> "none", obs |-> obs]
    ELSE IF is_observing(obs, nts, observed, observer,
                         [kind |-> "one", label |-> Head(labels)])
    THEN observe_labels(obs, nts, observed, observer, Tail(labels))
    ELSE LET ids == NoticeTypeIds(nts, Head(labels))
         IN  IF ids = {} THEN [error |-> "DoesNotExist", obs |-> obs]
             ELSE IF Cardinality(ids) > 1
             THEN [error |-> "MultipleObjectsReturned", obs |-> obs]
             ELSE observe_labels(
                      ObservationSave(obs, [user |-> observer,
                                            notice_type |-> CHOOSE i \in ids : TRUE,
                                            content_type |-> observed[1],
                                            object_id |-> observed[2],
                                            send |-> TRUE]),
                      nts, observed, observer, Tail(labels))

observe(obs, nts, observed, observer, arg) ==
    observe_labels(obs, nts, observed, observer, AsList(arg))

\* the table without row i
DeleteRow(tbl, i) == [j \in 1..(Len(tbl) - 1) |-> IF j < i THEN tbl[j] ELSE tbl[j + 1]]

RECURSIVE stop_observing_labels(_, _, _, _, _)
stop_observing_labels(obs, nts, observed, observer, labels) ==
    IF labels = <<>> THEN [error |-> "none", obs |-> obs]
    ELSE LET ids == ObservationIds(obs, nts, observed, observer, Head(labels))
         IN  IF ids = {}
             THEN stop_observing_labels(obs, nts, observed, observer, Tail(labels))
             ELSE IF Cardinality(ids) > 1
             THEN [error |-> "MultipleObjectsReturned", obs |-> obs]
             ELSE stop_observing_labels(DeleteRow(obs, CHOOSE i \in ids : TRUE),
                                        nts, observed, observer, Tail(labels))

stop_observing(obs, nts, observed, observer, arg) ==
    stop_observing_labels(obs, nts, observed, observer, AsList(arg))

\* the loop's state once the send r for user has ended
NoticeSent(st, user, r) ==
    [settings |-> r.settings, language |-> r.language,
     calls |-> st.calls \o r.calls, error |-> r.error,
     extra_context |-> r.extra_context, sent |-> Append(st.sent, user)]

\* Observation.send_notice for row o: the dict it is handed is updated in
\* place and handed on to send, which updates it in place as well (a dict
\* that holds 'observed' is not replaced by `extra_context or {}`)
send_notice(st, env, o) ==
    IF ~o.send THEN st
    ELSE NoticeSent(st, o.user,
             send(st.settings, st.language, env, <<o.user>>,
                  env.nts[o.notice_type].label,
                  Update(st.extra_context,
                         [EmptyContext EXCEPT
                             !.observed = {<<o.content_type, o.object_id>>}])))

\* lines 349-351: the loop over the observations
RECURSIVE send_observation_notices_loop(_, _, _, _, _)
send_observation_notices_loop(st, env, obs, rows, exclude) ==
    IF rows = <<>> \/ st.error # "none" THEN st
    ELSE LET o == obs[Head(rows)]
         IN  send_observation_notices_loop(
                 IF o.user \in exclude THEN st ELSE send_notice(st, env, o),
                 env, obs, Tail(rows), exclude)

\* send_observation_notices_for(observed, label, exclude=exclude): sent lists
\* the users send was called for, in order
send_observation_notices_for(tbl, lang, env, obs, observed, label, exclude) ==
    send_observation_notices_loop(
        [settings |-> tbl, language |-> lang, calls |-> <<>>, error |-> "none",
         extra_context |-> EmptyContext, sent |-> <<>>],
        env, obs, observers(obs, env.nts, observed, label), exclude)

\* lines 384-385: the content types that have an Observation at import time
LoadContentTypes(obs) == {obs[i].content_type : i \in DOMAIN obs}

\* the pre_delete receiver
observed_object_delete_handler(obs, cts, target) ==
    IF target[1] \in cts
    THEN LET keep(o) == ~(o.content_type = target[1] /\ o.object_id = target[2])
         IN  SelectSeq(obs, keep)
    ELSE obs

\* ---------------------------------------------------------------- actions
Env == [backends |-> NOTIFICATION_BACKENDS, nts |-> noticeTypes, faulty |-> faulty]

Idle == [at |-> "idle"]

\* create_notice_type is run as a post_syncdb step: the notice types the
\* installed apps have registered when the first request arrives
NoticeTypeRow(label, default) ==
    [label |-> label, display |-> "d1", description |-> "e1", default |-> default]

InitialNoticeTypes ==
    {<<>>, <<NoticeTypeRow("a", 2)>>,
     <<NoticeTypeRow("a", 2), NoticeTypeRow("b", 3)>>}

InitState(raising) ==
    /\ NOTIFICATION_BACKENDS \in {<<WebsiteBackend, EmailBackend>>,
                                  <<EmailBackend, WebsiteBackend>>}
    /\ noticeTypes \in InitialNoticeTypes
    /\ settings = <<>>
    /\ observations = <<>>
    /\ content_types = LoadContentTypes(<<>>)
    /\ entities = Entities
    /\ language = "en"
    /\ faulty = raising
    /\ calls = <<>>
    /\ result = [op |-> "none", outcome |-> "none", args |-> <<>>, ret |-> <<>>]
    /\ ops = 0
    /\ pc = [p \in Procs |-> Idle]

\* backends that handle their own errors, as deliver is expected to
Init == InitState({})

\* an installation with two backends of one medium, in any order of
\* enumeration
InitSharedMedium ==
    /\ NOTIFICATION_BACKENDS \in
           {b \in [1..3 -> {WebsiteBackend, EmailBackend, PopupBackend}] :
               Cardinality(Range(b)) = 3}
    /\ noticeTypes \in InitialNoticeTypes
    /\ settings = <<>>
    /\ observations = <<>>
    /\ content_types = LoadContentTypes(<<>>)
    /\ entities = Entities
    /\ language = "en"
    /\ faulty = {}
    /\ calls = <<>>
    /\ result = [op |-> "none", outcome |-> "none", args |-> <<>>, ret |-> <<>>]
    /\ ops = 0
    /\ pc = [p \in Procs |-> Idle]

\* an installation whose NOTIFICATION_BACKENDS setting lists no backend
\* labelled 'website': the loop of lines 50-53 never binds the name
InitNoWebsite ==
    /\ NOTIFICATION_BACKENDS = <<EmailBackend>>
    /\ noticeTypes \in InitialNoticeTypes
    /\ settings = <<>>
    /\ observations = <<>>
    /\ content_types = LoadContentTypes(<<>>)
    /\ entities = Entities
    /\ language = "en"
    /\ faulty = {}
    /\ calls = <<>>
    /\ result = [op |-> "none", outcome |-> "none", args |-> <<>>, ret |-> <<>>]
    /\ ops = 0
    /\ pc = [p \in Procs |-> Idle]

\* one backend call that raises: <<backend index, user, method>>
FaultPoints == {1, 2} \X Users \X {"can_send", "deliver"}

InitFault == \E f \in FaultPoints : InitState({f})

Step ==
    /\ ops < MaxOps
    /\ ops' = ops + 1
    /\ UNCHANGED <<NOTIFICATION_BACKENDS, faulty, pc>>

CreateNoticeType(label, display, description, default) ==
    LET r == create_notice_type(noticeTypes, label, display, description, default)
    IN  /\ Step
        /\ noticeTypes' = r.nts
        /\ result' = [op |-> "create_notice_type", outcome |-> r.error,
                      args |-> [label |-> label, display |-> display,
                                description |-> description, default |-> default],
                      ret |-> r.saved]
        /\ UNCHANGED <<settings, observations, content_types, entities,
                       language, calls>>

Send(users, label) ==
    LET r == send(settings, language, Env, users, label, EmptyContext)
    IN  /\ Step
        /\ settings' = r.settings
        /\ language' = r.language
        /\ calls' = r.calls
        /\ result' = [op |-> "send", outcome |-> r.error,
                      args |-> [users |-> users, label |-> label],
                      ret |-> <<>>]
        /\ UNCHANGED <<noticeTypes, observations, content_types, entities>>

Broadcast(label, exclude) ==
    \E send_to \in Orderings(broadcast_send_to(exclude)) :
        LET r == send(settings, language, Env, send_to, label, EmptyContext)
        IN  /\ Step
            /\ settings' = r.settings
            /\ language' = r.language
            /\ calls' = r.calls
            /\ result' = [op |-> "broadcast", outcome |-> r.error,
                          args |-> [label |-> label, exclude |-> exclude],
                          ret |-> send_to]
            /\ UNCHANGED <<noticeTypes, observations, content_types, entities>>

GetNotificationSetting(user, nt, medium) ==
    LET r == get_notification_setting(settings, NOTIFICATION_BACKENDS,
                                      noticeTypes, user, nt, medium)
    IN  /\ Step
        /\ settings' = r.tbl
        /\ result' = [op |-> "get_notification_setting", outcome |-> r.error,
                      args |-> [user |-> user, notice_type |-> nt,
                                medium |-> medium],
                      ret |-> [pk |-> r.pk, created |-> r.created]]
        /\ UNCHANGED <<noticeTypes, observations, content_types, entities,
                       language, calls>>

NoticeSettings(user, post, on) ==
    LET r == notice_settings(settings, Env, user, post, on, 0)
    IN  /\ Step
        /\ settings' = r.tbl
        /\ result' = [op |-> "notice_settings", outcome |-> r.error,
                      args |-> [user |-> user, post |-> post, on |-> on],
                      ret |-> <<>>]
        /\ UNCHANGED <<noticeTypes, observations, content_types, entities,
                       language, calls>>

Unsubscribe(medium, code) ==
    LET r == unsubscribe(settings, NOTIFICATION_BACKENDS, medium, code)
    IN  /\ Step
        /\ settings' = r.tbl
        /\ result' = [op |-> "unsubscribe", outcome |-> r.error,
                      args |-> [medium |-> medium, code |-> code],
                      ret |-> <<>>]
        /\ UNCHANGED <<noticeTypes, observations, content_types, entities,
                       language, calls>>

Observe(observed, observer, arg) ==
    LET r == observe(observations, noticeTypes, observed, observer, arg)
    IN  /\ Step
        /\ observed \in entities
        /\ observations' = r.obs
        /\ result' = [op |-> "observe", outcome |-> r.error,
                      args |-> [observed |-> observed, observer |-> observer,
                                labels |-> arg],
                      ret |-> Len(r.obs) - Len(observations)]
        /\ UNCHANGED <<noticeTypes, settings, content_types, entities,
                       language, calls>>

StopObserving(observed, observer, arg) ==
    LET r == stop_observing(observations, noticeTypes, observed, observer, arg)
    IN  /\ Step
        /\ observed \in entities
        /\ observations' = r.obs
        /\ result' = [op |-> "stop_observing", outcome |-> r.error,
                      args |-> [observed |-> observed, observer |-> observer,
                                labels |-> arg],
                      ret |-> <<>>]
        /\ UNCHANGED <<noticeTypes, settings, content_types, entities,
                       language, calls>>

\* a read: it is not counted in ops
IsObserving(observed, observer, arg) ==
    /\ \A p \in Procs : pc[p] = Idle
    /\ result.op # "is_observing"
    /\ result' = [op |-> "is_observing", outcome |-> "none",
                  args |-> [observed |-> observed, observer |-> observer,
                            labels |-> arg],
                  ret |-> is_observing(observations, noticeTypes, observed,
                                       observer, arg)]
    /\ UNCHANGED <<NOTIFICATION_BACKENDS, noticeTypes, settings, observations,
                   content_types, entities, language, faulty, calls, ops, pc>>

\* an observable object is deleted: pre_delete runs the receiver first
DeleteEntity(target) ==
    /\ Step
    /\ target \in entities
    /\ observations' = observed_object_delete_handler(observations,
                                                      content_types, target)
    /\ entities' = entities \ {target}
    /\ result' = [op |-> "delete", outcome |-> "none",
                  args |-> [target |-> target], ret |-> <<>>]
    /\ UNCHANGED <<noticeTypes, settings, content_types, language, calls>>

\* the process restarts and imports notification.models again
ModuleLoad ==
    /\ Step
    /\ content_types' = LoadContentTypes(observations)
    /\ result' = [op |-> "module_load", outcome |-> "none", args |-> <<>>,
                  ret |-> <<>>]
    /\ UNCHANGED <<noticeTypes, settings, observations, entities, language,
                   calls>>

MediumIds == {NOTIFICATION_BACKENDS[i].medium_id : i \in DOMAIN NOTIFICATION_BACKENDS}

\* the checkboxes of the settings form: one per notice type and medium
FormLabels == {noticeTypes[i].label : i \in DOMAIN noticeTypes} \X MediumIds

\* the preference store and the dispatch pipeline
NextDispatch ==
    \/ \E l \in Labels, d \in Displays, e \in Descriptions, n \in Defaults :
           CreateNoticeType(l, d, e, n)
    \/ \E us \in RecipientLists, l \in Labels : Send(us, l)
    \/ \E l \in Labels, ex \in SUBSET Users : Broadcast(l, ex)
    \/ \E u \in Users, nt \in DOMAIN noticeTypes, m \in MediumIds :
           GetNotificationSetting(u, nt, m)
    \/ \E u \in Users : NoticeSettings(u, FALSE, {})
    \/ \E u \in Users, on \in SUBSET FormLabels :
           NoticeSettings(u, TRUE, on)

\* the preference store: the rows a send or the settings form creates, and
\* the unsubscribe link
NextPreferences ==
    \/ \E us \in RecipientLists, l \in Labels : Send(us, l)
    \/ \E u \in Users, on \in SUBSET FormLabels : NoticeSettings(u, TRUE, on)
    \/ \E m \in MediumWords, c \in Codes : Unsubscribe(m, c)

\* the observation registry
NextObservation ==
    \/ \E l \in Labels, d \in Displays, e \in Descriptions, n \in Defaults :
           CreateNoticeType(l, d, e, n)
    \/ \E x \in Entities, u \in Users, a \in LabelArgs : Observe(x, u, a)
    \/ \E x \in Entities, u \in Users, a \in LabelArgs : StopObserving(x, u, a)
    \/ \E x \in Entities : DeleteEntity(x)
    \/ ModuleLoad

Next ==
    \/ NextDispatch
    \/ NextPreferences
    \/ NextObservation
    \/ \E x \in Entities, u \in Users \cup {Anonymous}, a \in LabelArgs :
           IsObserving(x, u, a)

\* ------------------------------------------------ concurrent callers
\* a call by caller p returns or raises
Return(p, r) ==
    /\ pc' = [pc EXCEPT ![p] = Idle]
    /\ result' = r

\* a call by caller p has not returned yet
Running(op, args) == [op |-> op, outcome |-> "running", args |-> args, ret |-> <<>>]

\* get_notification_setting, line 104: the lookup
GnsGet(p, user, nt, medium) ==
    LET ids == SettingIds(settings, user, nt, medium)
        args == [user |-> user, notice_type |-> nt, medium |-> medium]
    IN  /\ pc[p] = Idle
        /\ ops < MaxOps
        /\ ops' = ops + 1
        /\ IF ids = {}
           THEN /\ pc' = [pc EXCEPT ![p] =
                          [at |-> "gns_create", args |-> args,
                           send |-> DefaultSend(NOTIFICATION_BACKENDS,
                                                noticeTypes, nt, medium)]]
                /\ result' = Running("get_notification_setting", args)
           ELSE Return(p, [op |-> "get_notification_setting",
                           outcome |-> IF Cardinality(ids) = 1 THEN "none"
                                       ELSE "MultipleObjectsReturned",
                           args |-> args,
                           ret |-> [pk |-> IF Cardinality(ids) = 1
                                           THEN CHOOSE i \in ids : TRUE ELSE 0,
                                    created |-> FALSE]])
        /\ UNCHANGED <<NOTIFICATION_BACKENDS, noticeTypes, settings,
                       observations, content_types, entities, language,
                       faulty, calls>>

\* get_notification_setting, lines 110-113: the insert after a miss
GnsCreate(p) ==
    LET a == pc[p].args
        r == NoticeSettingCreate(settings,
                 [user |-> a.user, notice_type |-> a.notice_type,
                  medium |-> a.medium, send |-> pc[p].send])
    IN  /\ pc[p].at = "gns_create"
        /\ settings' = r.tbl
        /\ Return(p, [op |-> "get_notification_setting", outcome |-> r.error,
                      args |-> a, ret |-> [pk |-> r.pk, created |-> r.created]])
        /\ UNCHANGED <<NOTIFICATION_BACKENDS, noticeTypes, observations,
                       content_types, entities, language, faulty, calls, ops>>

\* observe: caller p goes on with the labels left, or returns
ObserveRest(p, args, labels) ==
    IF labels = <<>>
    THEN Return(p, [op |-> "observe", outcome |-> "none", args |-> args,
                    ret |-> <<>>])
    ELSE /\ pc' = [pc EXCEPT ![p] = [at |-> "observe_check", args |-> args,
                                     labels |-> labels]]
         /\ result' = Running("observe", args)

ObserveCall(p, observed, observer, arg) ==
    /\ pc[p] = Idle
    /\ observed \in entities
    /\ ops < MaxOps
    /\ ops' = ops + 1
    /\ ObserveRest(p, [observed |-> observed, observer |-> observer,
                       labels |-> arg], AsList(arg))
    /\ UNCHANGED <<NOTIFICATION_BACKENDS, noticeTypes, settings, observations,
                   content_types, entities, language, faulty, calls>>

\* observe, line 316: the is_observing test of the next label
ObserveCheck(p) ==
    LET a == pc[p].args
        labels == pc[p].labels
    IN  /\ pc[p].at = "observe_check"
        /\ IF is_observing(observations, noticeTypes, a.observed, a.observer,
                           [kind |-> "one", label |-> Head(labels)])
           THEN ObserveRest(p, a, Tail(labels))
           ELSE /\ pc' = [pc EXCEPT ![p].at = "observe_save"]
                /\ result' = Running("observe", a)
        /\ UNCHANGED <<NOTIFICATION_BACKENDS, noticeTypes, settings,
                       observations, content_types, entities, language,
                       faulty, calls, ops>>

\* observe, lines 317-321: the notice type lookup and the save
ObserveSave(p) ==
    LET a == pc[p].args
        labels == pc[p].labels
        ids == NoticeTypeIds(noticeTypes, Head(labels))
    IN  /\ pc[p].at = "observe_save"
        /\ IF Cardinality(ids) = 1
           THEN /\ observations' = ObservationSave(observations,
                        [user |-> a.observer,
                         notice_type |-> CHOOSE i \in ids : TRUE,
                         content_type |-> a.observed[1],
                         object_id |-> a.observed[2],
                         send |-> TRUE])
                /\ ObserveRest(p, a, Tail(labels))
           ELSE /\ UNCHANGED observations
                /\ Return(p, [op |-> "observe",
                              outcome |-> IF ids = {} THEN "DoesNotExist"
                                          ELSE "MultipleObjectsReturned",
                              args |-> a, ret |-> <<>>])
        /\ UNCHANGED <<NOTIFICATION_BACKENDS, noticeTypes, settings,
                       content_types, entities, language, faulty, calls, ops>>

\* the concurrent callers have returned, an observe last
Settled ==
    /\ \A p \in Procs : pc[p] = Idle
    /\ result.op = "observe"

\* stop_observing, called once the concurrent observe calls have returned
StopObservingSettled(observed, observer, arg) ==
    LET r == stop_observing(observations, noticeTypes, observed, observer, arg)
    IN  /\ Settled
        /\ observations' = r.obs
        /\ result' = [op |-> "stop_observing", outcome |-> r.error,
                      args |-> [observed |-> observed, observer |-> observer,
                                labels |-> arg],
                      ret |-> <<>>]
        /\ UNCHANGED <<NOTIFICATION_BACKENDS, noticeTypes, settings,
                       content_types, entities, language, faulty, calls, ops,
                       pc>>

\* what a send_observation_notices_for that ended as r leaves
NoticesSent(args, r) ==
    /\ settings' = r.settings
    /\ language' = r.language
    /\ calls' = r.calls
    /\ result' = [op |-> "send_observation_notices_for", outcome |-> r.error,
                  args |-> args, ret |-> r.sent]

\* send_observation_notices_for, called once the concurrent observe calls
\* have returned
SendObservationNoticesFor(observed, label, exclude) ==
    /\ Settled
    /\ NoticesSent([observed |-> observed, label |-> label, exclude |-> exclude],
                   send_observation_notices_for(settings, language, Env,
                       observations, observed, label, exclude))
    /\ UNCHANGED <<NOTIFICATION_BACKENDS, noticeTypes, observations,
                   content_types, entities, faulty, ops, pc>>

NextRaceSettings ==
    \/ \E p \in Procs, u \in Users, nt \in DOMAIN noticeTypes, m \in MediumIds :
           GnsGet(p, u, nt, m)
    \/ \E p \in Procs : GnsCreate(p)

\* callers that contend for the observations of one object
Contended == {<<"post", 1>>}

NextRaceObserve ==
    \/ \E p \in Procs, x \in Contended, u \in Users, a \in LabelArgs :
           ObserveCall(p, x, u, a)
    \/ \E p \in Procs : ObserveCheck(p)
    \/ \E p \in Procs : ObserveSave(p)
    \/ \E x \in Contended, u \in Users \cup {Anonymous}, a \in LabelArgs :
           IsObserving(x, u, a)

\* the observation registry under concurrent observe calls
NextRaceRegistry ==
    \/ \E p \in Procs, x \in Contended, u \in Users, a \in LabelArgs :
           ObserveCall(p, x, u, a)
    \/ \E p \in Procs : ObserveCheck(p)
    \/ \E p \in Procs : ObserveSave(p)
    \/ \E x \in Contended, u \in Users, a \in LabelArgs :
           StopObservingSettled(x, u, a)
    \/ \E x \in Contended, l \in Labels, ex \in SUBSET Users :
           SendObservationNoticesFor(x, l, ex)

\* the resolver of preferences and the registry of notice types it reads
NextResolver ==
    \/ \E l \in Labels, d \in Displays, e \in Descriptions, n \in Defaults :
           CreateNoticeType(l, d, e, n)
    \/ \E u \in Users, nt \in DOMAIN noticeTypes, m \in MediumIds :
           GetNotificationSetting(u, nt, m)

\* the operations that run while NoticeSetting rows exist: the two that
\* edit them, and the dispatch and observation calls that read them
NextStore ==
    \/ \E l \in Labels, n \in Defaults : CreateNoticeType(l, "d1", "e1", n)
    \/ \E us \in RecipientLists, l \in Labels : Send(us, l)
    \/ \E l \in Labels, u \in Users : Broadcast(l, {u})
    \/ \E u \in Users, on \in {{}, FormLabels} : NoticeSettings(u, TRUE, on)
    \/ \E m \in MediumWords, c \in Codes : Unsubscribe(m, c)
    \/ \E x \in Contended, u \in Users, a \in LabelArgs : Observe(x, u, a)
    \/ \E x \in Contended, u \in Users, a \in LabelArgs : StopObserving(x, u, a)
    \/ \E x \in Contended, l \in Labels, ex \in SUBSET Users :
           SendObservationNoticesFor(x, l, ex)

Spec == Init /\ [][Next]_vars
SpecStore == Init /\ [][NextStore]_vars
SpecSharedMedium == InitSharedMedium /\ [][NextResolver]_vars
SpecDispatch == Init /\ [][NextDispatch]_vars
SpecPreferences == Init /\ [][NextPreferences]_vars
SpecObservation == Init /\ [][NextObservation]_vars
SpecFault == InitFault /\ [][NextDispatch]_vars
SpecNoWebsite == InitNoWebsite /\ [][NextDispatch]_vars
SpecRaceSettings == Init /\ [][NextRaceSettings]_vars
SpecRaceObserve == Init /\ [][NextRaceObserve]_vars
SpecRaceRegistry == Init /\ [][NextRaceRegistry]_vars

\* ------------------------------------------------------------- properties
\* the deliver calls of the latest send on backend b for user u
Deliveries(cs, b, u) ==
    Cardinality({i \in DOMAIN cs : cs[i].backend = b /\ cs[i].user = u})

\* the stored preference of (user, notice type, medium) or, without a stored
\* row, the default: the medium's sensitivity against the type's threshold
Entitled(tbl, u, nt, b) ==
    LET rows == {i \in DOMAIN tbl :
                    /\ tbl[i].user = u
                    /\ tbl[i].notice_type = nt
                    /\ tbl[i].medium = NOTIFICATION_BACKENDS[b].medium_id}
    IN  IF rows = {}
        THEN NOTIFICATION_BACKENDS[b].spam_sensitivity <= noticeTypes[nt].default
        ELSE \A i \in rows : tbl[i].send

\* the call is a send: made directly or by broadcast
IsSend(r) == r.op \in {"send", "broadcast"}
SentTo(r) == IF r.op = "send" THEN r.args.users ELSE r.ret
TypeOf(label) == CHOOSE i \in DOMAIN noticeTypes : noticeTypes[i].label = label

\* C1: a send that returns has called deliver on a backend for a recipient
\* exactly when should_send answers true for that recipient, the notice type
\* and the backend's medium (the stored setting, or the default without
\* one), once per recipient and never for anyone else; with default 2, the
\* feed at sensitivity 1, email at 3 and no stored setting, the one call of
\* send([user], label) is the feed's.
C1_DeliverIffShouldSend ==
    [][(IsSend(result') /\ result'.outcome = "none") =>
        LET nt == TypeOf(result'.args.label)
            to == SentTo(result')
        IN  /\ \A u \in Users, b \in DOMAIN NOTIFICATION_BACKENDS :
                   Deliveries(calls', b, u) =
                       IF u \in Range(to) /\ Entitled(settings, u, nt, b)
                       THEN 1 ELSE 0
            /\ \A u \in Users :
                   (/\ to = <<u>>
                    /\ noticeTypes[nt].default = 2
                    /\ \A i \in DOMAIN settings : settings[i].user # u)
                   => /\ Len(calls') = 1
                      /\ calls'[1].backend = website(NOTIFICATION_BACKENDS)
                      /\ calls'[1].user = u
      ]_vars

C1_Witness ==
    /\ result.op = "send"
    /\ result.outcome = "none"
    /\ ops = 1
    /\ result.args.users = <<2>>
    /\ noticeTypes[TypeOf(result.args.label)].default = 2
    /\ Len(calls) = 1
    /\ calls[1].backend = website(NOTIFICATION_BACKENDS)
    /\ calls[1].user = 2
    /\ Len(settings) = 2

\* C2: get_notification_setting on a triple without a stored row appends
\* exactly one row, with send = (the medium's spam sensitivity <= the notice
\* type's default), and returns it; on a triple with a stored row it returns
\* that row and writes nothing, so a second call returns the first call's row.
C2_GetOrCreateDefault ==
    [][(result'.op = "get_notification_setting") =>
        LET a == result'.args
            rows == SettingIds(settings, a.user, a.notice_type, a.medium)
            b == CHOOSE i \in DOMAIN NOTIFICATION_BACKENDS :
                     NOTIFICATION_BACKENDS[i].medium_id = a.medium
        IN  /\ result'.outcome = "none"
            /\ rows = {} =>
                   /\ settings' = Append(settings,
                          [user |-> a.user, notice_type |-> a.notice_type,
                           medium |-> a.medium,
                           send |-> (NOTIFICATION_BACKENDS[b].spam_sensitivity
                                     <= noticeTypes[a.notice_type].default)])
                   /\ result'.ret.pk = Len(settings')
            /\ rows # {} =>
                   /\ settings' = settings
                   /\ rows = {result'.ret.pk}
            /\ (result.op = "get_notification_setting" /\ result.args = a) =>
                   /\ result'.ret.pk = result.ret.pk
                   /\ settings' = settings
      ]_vars

C2_Witness ==
    /\ result.op = "get_notification_setting"
    /\ result.outcome = "none"
    /\ ~result.ret.created
    /\ Len(settings) = 1
    /\ result.ret.pk = 1
    /\ settings[1].medium = "e"
    /\ ~settings[1].send

\* C3: whatever the interleaving of concurrent get_notification_setting
\* calls, the NoticeSetting table never holds two rows for one (user, notice
\* type, medium).
C3_OneRowPerTriple ==
    \A u \in Users, nt \in DOMAIN noticeTypes, m \in MediumIds :
        Cardinality(SettingIds(settings, u, nt, m)) <= 1

\* two callers missed on the same triple, one inserted, the other's insert
\* was refused
C3_Witness ==
    /\ result.op = "get_notification_setting"
    /\ result.outcome = "IntegrityError"
    /\ Cardinality(SettingIds(settings, result.args.user,
                               result.args.notice_type,
                               result.args.medium)) = 1

\* C4: a get_notification_setting call that loses the race on a first access
\* recovers: it returns the winning row and no error reaches its caller.
C4_LoserRecovers ==
    (result.op = "get_notification_setting" /\ result.outcome # "running") =>
        /\ result.outcome = "none"
        /\ SettingIds(settings, result.args.user, result.args.notice_type,
                      result.args.medium) = {result.ret.pk}

\* C5: a send for a label without a NoticeType raises DoesNotExist and has
\* called no backend, created no NoticeSetting row and left the active
\* locale as it was.
C5_UnknownLabelFailsFirst ==
    [][(IsSend(result') /\ NoticeTypeIds(noticeTypes, result'.args.label) = {}) =>
        /\ result'.outcome = "DoesNotExist"
        /\ calls' = <<>>
        /\ settings' = settings
        /\ language' = language
      ]_vars

C5_Witness ==
    /\ result.op = "send"
    /\ result.outcome = "DoesNotExist"
    /\ result.args.users = <<1, 2>>
    /\ noticeTypes # <<>>
    /\ settings # <<>>
    /\ calls = <<>>

\* C6: within one send, a backend whose deliver or can_send raises for a
\* recipient does not abort the send: every other backend call the
\* recipients are entitled to is still made.
C6_FaultIsolated ==
    (IsSend(result) /\ NoticeTypeIds(noticeTypes, result.args.label) # {}) =>
        LET nt == TypeOf(result.args.label)
        IN  \A u \in Range(SentTo(result)), b \in DOMAIN NOTIFICATION_BACKENDS :
                (/\ <<b, u, "can_send">> \notin faulty
                 /\ <<b, u, "deliver">> \notin faulty
                 /\ Entitled(settings, u, nt, b))
                => Deliveries(calls, b, u) = 1

\* C7: once the pre_delete hook has run for an entity, no Observation refers
\* to it: observers is empty for every label and is_observing is false for
\* every user.
C7_DeleteCascades ==
    (result.op = "delete") =>
        \A l \in Labels :
            /\ observers(observations, noticeTypes, result.args.target, l) = <<>>
            /\ \A u \in Users :
                   ~is_observing(observations, noticeTypes, result.args.target,
                                 u, [kind |-> "one", label |-> l])

\* C8: sequentially, after observe(x, u, labels) returns there is exactly one
\* Observation of x by u for each of the labels and is_observing is true;
\* a call made when u already observes x under the labels changes nothing.
C8_ObserveIdempotent ==
    [][(result'.op = "observe" /\ result'.outcome = "none") =>
        LET a == result'.args
        IN  /\ \A l \in Range(AsList(a.labels)) :
                   Cardinality(ObservationIds(observations', noticeTypes,
                                              a.observed, a.observer, l)) = 1
            /\ is_observing(observations', noticeTypes, a.observed,
                            a.observer, a.labels)
            /\ is_observing(observations, noticeTypes, a.observed,
                            a.observer, a.labels)
                   => observations' = observations
      ]_vars

\* the second of two observe calls: it saved nothing and the one row remains
C8_Witness ==
    /\ result.op = "observe"
    /\ result.outcome = "none"
    /\ result.args.labels = [kind |-> "one", label |-> "a"]
    /\ result.ret = 0
    /\ Len(observations) = 1
    /\ ObservationIds(observations, noticeTypes, result.args.observed,
                      result.args.observer, "a") = {1}

\* C9: for a user, is_observing(x, u, labels) is true exactly when it is true
\* for each label alone, which it is when at least one Observation matches
\* (several matching rows count as observed); for AnonymousUser it is false.
C9_AllLabels ==
    (result.op = "is_observing") =>
        LET a == result.args
            alone(l) == is_observing(observations, noticeTypes, a.observed,
                                     a.observer, [kind |-> "one", label |-> l])
        IN  /\ a.observer = Anonymous => result.ret = FALSE
            /\ a.observer # Anonymous =>
                   /\ result.ret = (\A l \in Range(AsList(a.labels)) : alone(l))
                   /\ \A l \in Labels :
                          alone(l) = (ObservationIds(observations, noticeTypes,
                                          a.observed, a.observer, l) # {})

\* both labels asked for, one of them with two matching rows
C9_Witness ==
    /\ result.op = "is_observing"
    /\ result.ret = TRUE
    /\ Len(AsList(result.args.labels)) = 2
    /\ \E l \in Labels :
           Cardinality(ObservationIds(observations, noticeTypes,
                                      result.args.observed,
                                      result.args.observer, l)) > 1

\* C10: broadcast(label, exclude) hands send every known user outside exclude
\* exactly once and nobody else: no excluded user is delivered to, and when
\* the send returns every other user has been processed.
C10_BroadcastExcludes ==
    (result.op = "broadcast") =>
        LET to == result.ret
            ex == result.args.exclude
        IN  /\ Range(to) = Users \ ex
            /\ Len(to) = Cardinality(Range(to))
            /\ \A i \in DOMAIN calls : calls[i].user \notin ex
            /\ result.outcome = "none" =>
                   \A u \in Users \ ex, m \in MediumIds :
                       SettingIds(settings, u, TypeOf(result.args.label), m) # {}

C10_Witness ==
    /\ result.op = "broadcast"
    /\ result.outcome = "none"
    /\ result.args.exclude = {2}
    /\ result.ret = <<1>>
    /\ calls # <<>>
    /\ \A i \in DOMAIN settings : settings[i].user = 1

\* the code is a link minted for user u and the word names a registered backend
ValidUnsubscribe(r) ==
    /\ r.op = "unsubscribe"
    /\ unsign(r.args.code).error = "none"
    /\ r.args.code.value \in Users
    /\ \E i \in DOMAIN NOTIFICATION_BACKENDS :
           NOTIFICATION_BACKENDS[i].label = r.args.medium

MediumOf(word) ==
    NOTIFICATION_BACKENDS[CHOOSE i \in DOMAIN NOTIFICATION_BACKENDS :
                              NOTIFICATION_BACKENDS[i].label = word].medium_id

\* C11: unsubscribe with a validly signed code of an existing user and a
\* medium naming any registered backend completes without error; afterwards
\* every NoticeSetting of that user for that medium has send = false, and
\* the rows of other users and of other media are unchanged.
C11_UnsubscribeAnyMedium ==
    [][ValidUnsubscribe(result') =>
        LET u == result'.args.code.value
            m == MediumOf(result'.args.medium)
        IN  /\ result'.outcome = "none"
            /\ DOMAIN settings' = DOMAIN settings
            /\ \A i \in DOMAIN settings :
                   IF settings[i].user = u /\ settings[i].medium = m
                   THEN settings'[i] = [settings[i] EXCEPT !.send = FALSE]
                   ELSE settings'[i] = settings[i]
      ]_vars

\* C12: unsubscribe answers not-found when the signature of the code does
\* not verify, when the signed id is no user's, or when the medium names no
\* registered backend, and then no NoticeSetting row is changed.
C12_UnsubscribeNotFound ==
    [][(result'.op = "unsubscribe" /\ ~ValidUnsubscribe(result')) =>
        /\ result'.outcome = "Http404"
        /\ settings' = settings
      ]_vars

\* a code with user 1's id under another id's signature, refused while user
\* 1 has rows that are on
C12_Witness ==
    /\ result.op = "unsubscribe"
    /\ result.outcome = "Http404"
    /\ result.args.medium = "website"
    /\ result.args.code.value = 1
    /\ unsign(result.args.code).error = "BadSignature"
    /\ \E i \in DOMAIN settings : settings[i].user = 1 /\ settings[i].send

\* C13: create_notice_type called a second time with the same arguments
\* writes nothing; called for an existing label with exactly one field that
\* differs it updates that field and nothing else; and it never leaves two
\* NoticeTypes with one label.
C13_CreateIdempotent ==
    [][(result'.op = "create_notice_type") =>
        LET a == result'.args
            ids == NoticeTypeIds(noticeTypes, a.label)
            fields == {"display", "description", "default"}
        IN  /\ result'.outcome = "none"
            /\ \A l \in Labels : Cardinality(NoticeTypeIds(noticeTypes', l)) <= 1
            /\ (result.op = "create_notice_type" /\ result.args = a) =>
                   /\ noticeTypes' = noticeTypes
                   /\ result'.ret = FALSE
            /\ \A i \in ids, f \in fields :
                   (/\ a[f] # noticeTypes[i][f]
                    /\ \A g \in fields \ {f} : a[g] = noticeTypes[i][g])
                   => /\ noticeTypes' = [noticeTypes EXCEPT ![i][f] = a[f]]
                      /\ result'.ret = TRUE
      ]_vars

\* the display of 'a' was changed by one call, and the same call made again
\* saved nothing
C13_Witness ==
    /\ result.op = "create_notice_type"
    /\ ops = 2
    /\ result.ret = FALSE
    /\ noticeTypes = <<[label |-> "a", display |-> "d2", description |-> "e1",
                        default |-> 2]>>

\* C14: whenever send ends, by returning or by a failure of a per-recipient
\* step, the active locale is the one that was active when send was entered.
C14_LocaleRestored ==
    [][IsSend(result') => language' = language]_vars

\* C15: with no 'website' backend registered, send completes for every
\* recipient and delivers to every registered backend whose medium the
\* recipient's preference permits.
C15_SendWithoutWebsite ==
    (/\ IsSend(result)
     /\ website(NOTIFICATION_BACKENDS) = 0
     /\ NoticeTypeIds(noticeTypes, result.args.label) # {}) =>
        /\ result.outcome = "none"
        /\ \A u \in Range(SentTo(result)), b \in DOMAIN NOTIFICATION_BACKENDS :
               SettingIds(settings, u, TypeOf(result.args.label),
                          NOTIFICATION_BACKENDS[b].medium_id) # {}
               /\ (Entitled(settings, u, TypeOf(result.args.label), b)
                   => Deliveries(calls, b, u) = 1)

\* C18: under any interleaving of observe calls, there is at most one
\* Observation per (observer, notice type, observed content type, observed id).
C18_OneObservationPerKey ==
    \A i, j \in DOMAIN observations :
        (/\ observations[i].user = observations[j].user
         /\ observations[i].notice_type = observations[j].notice_type
         /\ observations[i].content_type = observations[j].content_type
         /\ observations[i].object_id = observations[j].object_id)
        => i = j

\* the rows of observed by observer under one of the labels
Matches(o, observed, observer, labels) ==
    /\ o.content_type = observed[1]
    /\ o.object_id = observed[2]
    /\ o.user = observer
    /\ noticeTypes[o.notice_type].label \in labels

\* C16: in every reachable store, stop_observing(x, u, labels) completes
\* without error; afterwards is_observing(x, u, l) is false for each label l
\* given, and the Observations of other observers, objects or labels are as
\* they were (so without a matching row nothing changes).
C16_StopObserving ==
    [][(result'.op = "stop_observing") =>
        LET a == result'.args
            ls == Range(AsList(a.labels))
            keep(o) == ~Matches(o, a.observed, a.observer, ls)
        IN  /\ result'.outcome = "none"
            /\ \A l \in ls :
                   ~is_observing(observations', noticeTypes, a.observed,
                                 a.observer, [kind |-> "one", label |-> l])
            /\ observations' = SelectSeq(observations, keep)
      ]_vars

\* how many times send was called for user u
TimesSent(sent, u) == Cardinality({i \in DOMAIN sent : sent[i] = u})

\* C17: send_observation_notices_for(observed, label, exclude=E) calls send
\* exactly once for each user outside E who observes the object under the
\* label with send true, and never for a user in E, a user whose
\* Observation has send false or a user who observes only another object or
\* label.
C17_OncePerObserver ==
    (result.op = "send_observation_notices_for") =>
        LET a == result.args
        IN  /\ result.outcome = "none"
            /\ \A u \in Users :
                   TimesSent(result.ret, u) =
                       IF /\ u \notin a.exclude
                          /\ \E i \in DOMAIN observations :
                                 /\ Matches(observations[i], a.observed, u,
                                            {a.label})
                                 /\ observations[i].send
                       THEN 1 ELSE 0

\* the per-recipient entries of a context are u's own or absent
OwnOrAbsent(c, u) ==
    /\ c.recipient \subseteq {u}
    /\ c.unsubscribe_link \subseteq {sign(u)}

\* C19: in a send to several recipients, and in send_observation_notices_for
\* over several observers, the context handed to a backend's deliver call
\* for recipient r, the feed's included, holds no other recipient's
\* 'recipient' value or unsubscribe link.
C19_ContextIsOwn ==
    \A i \in DOMAIN calls : OwnOrAbsent(calls[i].extra_context, calls[i].user)

\* C20: for each recipient of a send whose preference permits the feed, the
\* feed backend's deliver call comes before every other backend's call for
\* that recipient, and the feed backend is called exactly once for the
\* recipient in that send.
C20_FeedFirstOnce ==
    [][(IsSend(result') /\ result'.outcome = "none") =>
        LET nt == TypeOf(result'.args.label)
            w == website(NOTIFICATION_BACKENDS)
        IN  \A u \in Range(SentTo(result')) :
                Entitled(settings, u, nt, w) =>
                    /\ Deliveries(calls', w, u) = 1
                    /\ \A i, j \in DOMAIN calls' :
                           (/\ calls'[i].user = u /\ calls'[i].backend = w
                            /\ calls'[j].user = u /\ calls'[j].backend # w)
                           => i < j
      ]_vars

\* the registry enumerates email first, and both recipients are sent the
\* feed's notice and then the email
C20_Witness ==
    /\ result.op = "send"
    /\ result.outcome = "none"
    /\ NOTIFICATION_BACKENDS[1].label = "email"
    /\ Len(calls) = 4
    /\ calls[1].backend = 2 /\ calls[2].backend = 1
    /\ calls[3].backend = 2 /\ calls[4].backend = 1
    /\ calls[1].user = calls[2].user
    /\ calls[3].user = calls[4].user

\* the least spam_sensitivity among the registered backends of medium m
MinSensitivity(m) ==
    LET ss == {NOTIFICATION_BACKENDS[i].spam_sensitivity :
                  i \in {j \in DOMAIN NOTIFICATION_BACKENDS :
                             NOTIFICATION_BACKENDS[j].medium_id = m}}
    IN  CHOOSE x \in ss : \A y \in ss : x <= y

\* C21: the table of defaults built at import maps each medium id to the
\* minimum spam_sensitivity of the registered backends that share the id,
\* whatever the order in which the backends are enumerated.
C21_DefaultsAreMinimum ==
    \A m \in MediumIds :
        NOTICE_MEDIA_DEFAULTS(NOTIFICATION_BACKENDS)[m] = MinSensitivity(m)

\* the operations that may change the send value of a stored NoticeSetting
Editors == {"notice_settings", "unsubscribe"}

\* C22: a stored NoticeSetting row is never deleted and its send value is
\* changed only by the notice_settings update and by unsubscribe: after
\* send, broadcast, observe, stop_observing, send_observation_notices_for
\* and a create_notice_type that changes the type's default, the row and
\* should_send for its triple are what they were.
C22_StoredSettingKept ==
    [][\A i \in DOMAIN settings :
          /\ i \in DOMAIN settings'
          /\ settings'[i].user = settings[i].user
          /\ settings'[i].notice_type = settings[i].notice_type
          /\ settings'[i].medium = settings[i].medium
          /\ result'.op \notin Editors =>
                 /\ settings'[i].send = settings[i].send
                 /\ should_send(settings', NOTIFICATION_BACKENDS, noticeTypes',
                                settings[i].user, settings[i].notice_type,
                                settings[i].medium).value = settings[i].send
      ]_vars

\* the default of 'a' was raised to 3 after user rows were stored under
\* default 2: the email row is still off although email would now be on
C22_Witness ==
    /\ result.op = "create_notice_type"
    /\ result.ret = TRUE
    /\ noticeTypes[1].default = 3
    /\ \E i \in DOMAIN settings :
           /\ settings[i].notice_type = 1
           /\ settings[i].medium = "e"
           /\ ~settings[i].send
           /\ DefaultSend(NOTIFICATION_BACKENDS, noticeTypes, 1, "e")

\* C23: after a successful unsubscribe of user U from email, a later send
\* does not deliver to the email backend for U, whatever the notice type,
\* one for which U had no NoticeSetting at the time included.
C23_UnsubscribedStaysOff ==
    [][(/\ result.op = "unsubscribe"
        /\ result.outcome = "none"
        /\ result.args.medium = "email"
        /\ IsSend(result')) =>
           \A i \in DOMAIN calls' :
               calls'[i].user = result.args.code.value
               => NOTIFICATION_BACKENDS[calls'[i].backend].label # "email"
      ]_vars

====
